---- MODULE Spec2Model ----
(***************************************************************************)
(* Model of src/main.rs: Transaction, Block (new, add_transaction,        *)
(* calculate_hash) and Blockchain (new, add_block, get_block_by_id,       *)
(* validate_chain).                                                       *)
(*                                                                         *)
(* Modelling conventions                                                   *)
(*  - Option<T> is a sequence of length 0 (None) or 1 (Some(x)).           *)
(*  - A formatted Rust String (the hash input, a hash, previous_hash) is   *)
(*    a TLA+ string; origin and destination, which the Debug formatter     *)
(*    escapes character by character, are sequences of one-character       *)
(*    strings.                                                             *)
(*  - SHA-256 followed by hex::encode is modelled as a collision-free      *)
(*    digest of its input (Sha256Hex); everything that is fed to it is     *)
(*    computed as format! computes it, so two different blocks that        *)
(*    serialize to the same text do get the same hash.                     *)
(*  - panic! and a failing unwrap()/index are modelled by the flag         *)
(*    `panicked`; the object is left as the unwinding leaves it.           *)
(*  - Spec, SpecBlock, SpecTamper and SpecRemove run whole calls, as the   *)
(*    single-threaded program does; SpecRace runs add_block and            *)
(*    validate_chain statement by statement for callers that are not       *)
(*    serialized.                                                          *)
(***************************************************************************)
EXTENDS Integers, Sequences, FiniteSets, TLC

VARIABLES
    blocks,        \* Blockchain.blocks: HashMap<u64, Block>, a function key -> Block
    latest_block,  \* Blockchain.latest_block: Option<u64>
    blk,           \* a stand-alone Block value (Option: None before Block::new)
    op,            \* the last operation called
    args,          \* the arguments of the last call
    ret,           \* what the last call returned
    panicked,      \* whether the last call panicked
    ncalls,        \* number of add_transaction calls on blk since Block::new
    saved,         \* the stored blocks as they were before outside mutation began
    ntamper,       \* number of outside mutations applied since `saved`
    trip,          \* where the caller is in a mutate / validate / restore round:
                   \* "built", "tampered", "detected", "restored", "round_trip"
    writers,       \* the locals and position of each add_block call in progress
    validator      \* the locals and position of a validate_chain call in progress

\* the calls in progress, when calls are interleaved step by step
conc == <<writers, validator>>

vars == <<blocks, latest_block, blk, op, args, ret, panicked, ncalls, saved, ntamper,
          trip, writers, validator>>

-----------------------------------------------------------------------------
(* Bounds of the model *)

\* add_block is called on chains whose tip is below MaxBlocks
MaxBlocks == 2

\* add_transaction is called at most MaxCalls times on the stand-alone block
MaxCalls == 7

\* number of outside field mutations applied to a chain before it is restored
MaxTamper == 2

-----------------------------------------------------------------------------
(* Option<T> *)

None == <<>>

Some(x) == <<x>>

is_some(o) == o # <<>>

is_none(o) == o = <<>>

unwrap(o) == o[1]

Unit == "()"

-----------------------------------------------------------------------------
(* Formatting: what format!("{}{}{:?}{}", ...) writes *)

DigitChar == <<"0", "1", "2", "3", "4", "5", "6", "7", "8", "9">>

\* Display of a u64: its decimal digits, no padding, no separator
RECURSIVE FmtU64(_)
FmtU64(n) ==
    IF n < 10 THEN DigitChar[n + 1]
    ELSE FmtU64(n \div 10) \o DigitChar[(n % 10) + 1]

\* char::escape_debug as used by Debug for str, on the characters of the model
EscapeChar(c) ==
    IF c = "\"" THEN "\\\""
    ELSE IF c = "\\" THEN "\\\\"
    ELSE c

RECURSIVE EscapeStr(_)
EscapeStr(s) ==
    IF s = <<>> THEN ""
    ELSE EscapeChar(Head(s)) \o EscapeStr(Tail(s))

\* Debug of a String: quoted and escaped
DebugStr(s) == "\"" \o EscapeStr(s) \o "\""

\* #[derive(Debug)] of Transaction
DebugTransaction(t) ==
    "Transaction { id: " \o FmtU64(t.id)
        \o ", origin: " \o DebugStr(t.origin)
        \o ", destination: " \o DebugStr(t.destination)
        \o ", quantity: " \o FmtU64(t.quantity) \o " }"

RECURSIVE DebugList(_)
DebugList(ts) ==
    IF ts = <<>> THEN ""
    ELSE IF Len(ts) = 1 THEN DebugTransaction(ts[1])
    ELSE DebugTransaction(Head(ts)) \o ", " \o DebugList(Tail(ts))

\* Debug of Vec<Transaction>
DebugVec(ts) == "[" \o DebugList(ts) \o "]"

\* hex::encode(Sha256::digest(data)): a collision-free digest of data
Sha256Hex(data) == "sha256(" \o data \o ")"

-----------------------------------------------------------------------------
(* Block *)

BlockCapacity == 5

Block_new(id, now, previous_hash) ==
    [id |-> id,
     timestamp |-> now,
     transactions |-> <<>>,
     previous_hash |-> previous_hash,
     hash |-> None]

\* bug: the stored hash is part of the hashed text
HashInput_WithStoredHash(b) ==
    FmtU64(b.id) \o FmtU64(b.timestamp) \o DebugVec(b.transactions) \o b.previous_hash
        \o (IF b.hash = <<>> THEN "None" ELSE "Some(" \o b.hash[1] \o ")")

\* bug: the timestamp is left out of the hashed text
HashInput_NoTimestamp(b) ==
    FmtU64(b.id) \o DebugVec(b.transactions) \o b.previous_hash

HashInput(b) ==
    FmtU64(b.id) \o FmtU64(b.timestamp) \o DebugVec(b.transactions) \o b.previous_hash

calculate_hash(b) == Sha256Hex(HashInput(b))

\* bug: the hash is taken before the fifth transaction is pushed
add_transaction_HashBeforePush(b, transaction) ==
    IF Len(b.transactions) < BlockCapacity
    THEN LET pushed == [b EXCEPT !.transactions = Append(@, transaction)]
         IN  IF Len(pushed.transactions) = BlockCapacity
             THEN [pushed EXCEPT !.hash = Some(calculate_hash(b))]
             ELSE pushed
    ELSE b

\* bug: no capacity test, the hash is retaken whenever the length allows
add_transaction_NoCapacityTest(b, transaction) ==
    LET pushed == [b EXCEPT !.transactions = Append(@, transaction)]
    IN  IF Len(pushed.transactions) >= BlockCapacity
        THEN [pushed EXCEPT !.hash = Some(calculate_hash(pushed))]
        ELSE pushed

\* bug: the hash is set on every push
add_transaction_HashEveryPush(b, transaction) ==
    IF Len(b.transactions) < BlockCapacity
    THEN LET pushed == [b EXCEPT !.transactions = Append(@, transaction)]
         IN  [pushed EXCEPT !.hash = Some(calculate_hash(pushed))]
    ELSE b

\* bug: the transaction is put in front of the earlier ones
add_transaction_PushFront(b, transaction) ==
    IF Len(b.transactions) < BlockCapacity
    THEN LET pushed == [b EXCEPT !.transactions = <<transaction>> \o @]
         IN  IF Len(pushed.transactions) = BlockCapacity
             THEN [pushed EXCEPT !.hash = Some(calculate_hash(pushed))]
             ELSE pushed
    ELSE b

\* bug: the hash is set at no length a block ever reaches
add_transaction_NeverSeals(b, transaction) ==
    IF Len(b.transactions) < BlockCapacity
    THEN LET pushed == [b EXCEPT !.transactions = Append(@, transaction)]
         IN  IF Len(pushed.transactions) = BlockCapacity + 1
             THEN [pushed EXCEPT !.hash = Some(calculate_hash(pushed))]
             ELSE pushed
    ELSE b

add_transaction(b, transaction) ==
    IF Len(b.transactions) < BlockCapacity
    THEN LET pushed == [b EXCEPT !.transactions = Append(@, transaction)]
         IN  IF Len(pushed.transactions) = BlockCapacity
             THEN [pushed EXCEPT !.hash = Some(calculate_hash(pushed))]
             ELSE pushed
    ELSE b

-----------------------------------------------------------------------------
(* Blockchain *)

GenesisPreviousHash == "0"

\* bug: the genesis block is stored as Block::new left it, without a hash
Blockchain_new_NoGenesisHash(now) ==
    [blocks |-> (0 :> Block_new(0, now, GenesisPreviousHash)),
     latest_block |-> Some(0)]

Blockchain_new(now) ==
    LET genesis_block == Block_new(0, now, GenesisPreviousHash)
    IN  [blocks |-> (0 :> [genesis_block EXCEPT !.hash = Some(calculate_hash(genesis_block))]),
         latest_block |-> Some(0)]

\* bug: the batch is consumed from its end
RECURSIVE AddAll_Reversed(_, _)
AddAll_Reversed(b, transactions) ==
    IF transactions = <<>> THEN b
    ELSE AddAll_Reversed(add_transaction(b, transactions[Len(transactions)]),
                         SubSeq(transactions, 1, Len(transactions) - 1))

\* for transaction in transactions { block.add_transaction(transaction); }
RECURSIVE AddAll(_, _)
AddAll(b, transactions) ==
    IF transactions = <<>> THEN b
    ELSE AddAll(add_transaction(b, Head(transactions)), Tail(transactions))

\* bug: only a short batch is rejected
AddBlockPanics_ShortOnly(bs, lb, transactions) ==
    \/ Len(transactions) < BlockCapacity
    \/ is_none(lb)
    \/ unwrap(lb) \notin DOMAIN bs
    \/ is_none(bs[unwrap(lb)].hash)

\* the panic! of add_block and its two failing reads (unwrap, index, unwrap)
AddBlockPanics(bs, lb, transactions) ==
    \/ Len(transactions) # BlockCapacity
    \/ is_none(lb)
    \/ unwrap(lb) \notin DOMAIN bs
    \/ is_none(bs[unwrap(lb)].hash)

\* bug: the new block is linked to the sentinel instead of the tip's hash
add_block_SentinelLink(bs, lb, transactions, now) ==
    LET latest_id == unwrap(lb)
        block == AddAll(Block_new(latest_id + 1, now, GenesisPreviousHash), transactions)
    IN  [blocks |-> [k \in DOMAIN bs \cup {block.id} |->
                        IF k = block.id THEN block ELSE bs[k]],
         latest_block |-> Some(block.id)]

\* bug: the new block is stored under the tip's key
add_block_StoredAtTip(bs, lb, transactions, now) ==
    LET latest_id == unwrap(lb)
        previous_hash == unwrap(bs[latest_id].hash)
        block == AddAll(Block_new(latest_id + 1, now, previous_hash), transactions)
    IN  [blocks |-> [k \in DOMAIN bs |-> IF k = latest_id THEN block ELSE bs[k]],
         latest_block |-> Some(latest_id)]

\* bug: the tip block is re-stamped when a block is appended to it
add_block_RestampsTip(bs, lb, transactions, now) ==
    LET latest_id == unwrap(lb)
        previous_hash == unwrap(bs[latest_id].hash)
        block == AddAll(Block_new(latest_id + 1, now, previous_hash), transactions)
    IN  [blocks |-> [k \in DOMAIN bs \cup {block.id} |->
                        IF k = block.id THEN block
                        ELSE IF k = latest_id THEN [bs[k] EXCEPT !.timestamp = now]
                        ELSE bs[k]],
         latest_block |-> Some(block.id)]

\* the Blockchain after add_block(transactions) returned normally
add_block(bs, lb, transactions, now) ==
    LET latest_id == unwrap(lb)
        previous_hash == unwrap(bs[latest_id].hash)
        block == AddAll(Block_new(latest_id + 1, now, previous_hash), transactions)
    IN  [blocks |-> [k \in DOMAIN bs \cup {block.id} |->
                        IF k = block.id THEN block ELSE bs[k]],
         latest_block |-> Some(block.id)]

\* bug: a missing key yields the tip's block instead of None
get_block_by_id_DefaultsToTip(bs, id) ==
    IF id \in DOMAIN bs THEN Some(bs[id])
    ELSE Some(bs[CHOOSE k \in DOMAIN bs : \A j \in DOMAIN bs : j <= k])

get_block_by_id(bs, id) == IF id \in DOMAIN bs THEN Some(bs[id]) ELSE None

\* bug: the link to the preceding block is not compared
RECURSIVE ValidateFrom_NoLinkCheck(_, _, _, _)
ValidateFrom_NoLinkCheck(bs, last, id, previous_hash) ==
    IF id > last THEN [panic |-> FALSE, value |-> TRUE]
    ELSE IF id \notin DOMAIN bs THEN [panic |-> TRUE, value |-> FALSE]
    ELSE LET block == bs[id]
         IN  IF is_none(block.hash) \/ unwrap(block.hash) # calculate_hash(block)
             THEN [panic |-> FALSE, value |-> FALSE]
             ELSE ValidateFrom_NoLinkCheck(bs, last, id + 1, unwrap(block.hash))

\* the loop of validate_chain from `id` on, with the running previous_hash
RECURSIVE ValidateFrom(_, _, _, _)
ValidateFrom(bs, last, id, previous_hash) ==
    IF id > last THEN [panic |-> FALSE, value |-> TRUE]
    ELSE IF id \notin DOMAIN bs THEN [panic |-> TRUE, value |-> FALSE]
    ELSE LET block == bs[id]
         IN  IF is_none(block.hash) \/ unwrap(block.hash) # calculate_hash(block)
             THEN [panic |-> FALSE, value |-> FALSE]
             ELSE IF block.previous_hash # previous_hash
             THEN [panic |-> FALSE, value |-> FALSE]
             ELSE ValidateFrom(bs, last, id + 1, unwrap(block.hash))

\* bug: the range of the loop excludes the tip, 0..latest instead of 0..=latest
validate_chain_SkipsTip(bs, lb) ==
    IF is_none(lb) THEN [panic |-> TRUE, value |-> FALSE]
    ELSE ValidateFrom(bs, unwrap(lb) - 1, 0, GenesisPreviousHash)

validate_chain(bs, lb) ==
    IF is_none(lb) THEN [panic |-> TRUE, value |-> FALSE]
    ELSE ValidateFrom(bs, unwrap(lb), 0, GenesisPreviousHash)

-----------------------------------------------------------------------------
(* Inputs *)

\* values SystemTime::now() can give
Timestamps == {3, 23}

Party(i) == <<"U", DigitChar[(i % 10) + 1]>>

Tx(i) == [id |-> i, origin |-> Party(i), destination |-> Party(i + 1), quantity |-> i * 10]

Batch(first, n) == [k \in 1..n |-> Tx(first + k - 1)]

ValidBatches == {Batch(1, 5), Batch(6, 5)}

InvalidBatches == {Batch(1, 0), Batch(1, 4), Batch(1, 6)}

Batches == ValidBatches \cup InvalidBatches

-----------------------------------------------------------------------------
(* Calls in progress: the locals of add_block and of validate_chain *)

Writers == {"w1", "w2"}

\* add_block before its first statement
IdleWriter ==
    [pc |-> "idle", transactions |-> <<>>, latest_id |-> 0, previous_hash |-> "",
     block |-> None]

\* validate_chain before its first statement
IdleValidator ==
    [pc |-> "idle", last |-> 0, id |-> 0, previous_hash |-> "", result |-> None,
     overlapped |-> FALSE, saw_partial |-> FALSE]

-----------------------------------------------------------------------------
(* Operations of the ledger *)

Init ==
    /\ \E now \in Timestamps :
          /\ blocks = Blockchain_new(now).blocks
          /\ latest_block = Blockchain_new(now).latest_block
    /\ blk = None
    /\ ncalls = 0
    /\ op = "new"
    /\ args = <<>>
    /\ ret = Unit
    /\ panicked = FALSE
    /\ saved = blocks
    /\ ntamper = 0
    /\ trip = "built"
    /\ writers = [w \in Writers |-> IdleWriter]
    /\ validator = IdleValidator

CallAddBlock(transactions, now) ==
    /\ op' = "add_block"
    /\ args' = <<transactions>>
    /\ ret' = Unit
    /\ IF AddBlockPanics(blocks, latest_block, transactions)
       THEN /\ panicked' = TRUE
            /\ UNCHANGED <<blocks, latest_block, saved, trip>>
       ELSE /\ panicked' = FALSE
            /\ blocks' = add_block(blocks, latest_block, transactions, now).blocks
            /\ latest_block' = add_block(blocks, latest_block, transactions, now).latest_block
            /\ saved' = blocks'
            /\ trip' = "built"
    /\ UNCHANGED <<blk, ncalls, ntamper>>
    /\ UNCHANGED conc

CallValidateChain ==
    /\ op' = "validate_chain"
    /\ args' = <<>>
    /\ LET result == validate_chain(blocks, latest_block)
       IN  /\ ret' = result.value
           /\ panicked' = result.panic
           /\ trip' = IF trip = "tampered" /\ ~result.value THEN "detected" ELSE trip
    /\ UNCHANGED <<blocks, latest_block, blk, ncalls, saved, ntamper>>
    /\ UNCHANGED conc

CallGetBlockById(id) ==
    /\ op' = "get_block_by_id"
    /\ args' = <<id>>
    /\ ret' = get_block_by_id(blocks, id)
    /\ panicked' = FALSE
    /\ UNCHANGED <<blocks, latest_block, blk, ncalls, saved, ntamper, trip>>
    /\ UNCHANGED conc

\* the tip is below the bound, so that the model is finite
BelowBound == is_some(latest_block) /\ unwrap(latest_block) < MaxBlocks

LookupIds == 0..(MaxBlocks + 1)

Next ==
    \/ \E transactions \in ValidBatches, now \in Timestamps :
          BelowBound /\ CallAddBlock(transactions, now)
    \/ \E transactions \in InvalidBatches, now \in Timestamps :
          CallAddBlock(transactions, now)
    \/ CallValidateChain
    \/ \E id \in LookupIds : CallGetBlockById(id)

Spec == Init /\ [][Next]_vars

-----------------------------------------------------------------------------
(* Operations on a stand-alone block *)

BlockIds == {1, 12}

PreviousHashes == {GenesisPreviousHash, Sha256Hex("03[]0")}

Transactions == {Tx(1), Tx(2)}

CallBlockNew(id, now, previous_hash) ==
    /\ op' = "Block::new"
    /\ args' = <<id, previous_hash>>
    /\ blk' = Some(Block_new(id, now, previous_hash))
    /\ ret' = Unit
    /\ panicked' = FALSE
    /\ ncalls' = 0
    /\ UNCHANGED <<blocks, latest_block, saved, ntamper, trip>>
    /\ UNCHANGED conc

CallAddTransaction(transaction) ==
    /\ is_some(blk)
    /\ ncalls < MaxCalls
    /\ op' = "add_transaction"
    /\ args' = <<transaction>>
    /\ blk' = Some(add_transaction(unwrap(blk), transaction))
    /\ ret' = Unit
    /\ panicked' = FALSE
    /\ ncalls' = ncalls + 1
    /\ UNCHANGED <<blocks, latest_block, saved, ntamper, trip>>
    /\ UNCHANGED conc

\* block.calculate_hash(), on &self
CallCalculateHash ==
    /\ is_some(blk)
    /\ op' = "calculate_hash"
    /\ args' = <<>>
    /\ ret' = calculate_hash(unwrap(blk))
    /\ panicked' = FALSE
    /\ UNCHANGED <<blocks, latest_block, blk, ncalls, saved, ntamper, trip>>
    /\ UNCHANGED conc

NextBlock ==
    \/ \E id \in BlockIds, now \in Timestamps, previous_hash \in PreviousHashes :
          CallBlockNew(id, now, previous_hash)
    \/ \E transaction \in Transactions : CallAddTransaction(transaction)
    \/ CallCalculateHash

SpecBlock == Init /\ [][NextBlock]_vars

-----------------------------------------------------------------------------
(* Outside mutation of stored blocks, as done by tests::test_chain_validation
   through blocks.get_mut(&k): one field of one stored block is overwritten *)

BlockFields == {"id", "timestamp", "previous_hash", "hash"}

TransactionFields == {"id", "origin", "destination", "quantity"}

ForgedHash == Sha256Hex("forged")

\* the values a field of a block is overwritten with
BlockFieldValues(field) ==
    CASE field = "id" -> {1, 12}
      [] field = "timestamp" -> Timestamps
      [] field = "previous_hash" -> PreviousHashes
      [] field = "hash" -> {None, Some(ForgedHash)}

\* the values a field of a transaction is overwritten with
TransactionFieldValues(field) ==
    CASE field = "id" -> {1, 7}
      [] field = "origin" -> {Party(1), <<"\"", "U">>}
      [] field = "destination" -> {Party(2), <<"\\">>}
      [] field = "quantity" -> {10, 100}

\* the positions of transactions[i] that are overwritten
TamperIndexes == {1, BlockCapacity}

\* the chains that are mutated are built from these batches, at these times
TamperBatches == {Batch(1, 5)}

TamperTimes == {23}

\* the mutations between two restores are made to one stored block, k
OnlyBlockTouched(k) ==
    \A j \in DOMAIN blocks \ {k} : blocks[j] = saved[j]

Overwrite(k, block) ==
    /\ ntamper < MaxTamper
    /\ OnlyBlockTouched(k)
    /\ block # blocks[k]
    /\ blocks' = [blocks EXCEPT ![k] = block]
    /\ UNCHANGED saved
    /\ ntamper' = ntamper + 1
    /\ trip' = "tampered"
    /\ op' = "tamper"
    /\ args' = <<>>
    /\ ret' = Unit
    /\ panicked' = FALSE
    /\ UNCHANGED <<latest_block, blk, ncalls>>
    /\ UNCHANGED conc

\* blocks.get_mut(&k).unwrap().<field> = value
TamperBlockField(k, field, value) ==
    /\ k \in DOMAIN blocks
    /\ Overwrite(k, [blocks[k] EXCEPT ![field] = value])

\* blocks.get_mut(&k).unwrap().transactions[i - 1].<field> = value
TamperTransactionField(k, i, field, value) ==
    /\ k \in DOMAIN blocks
    /\ i \in 1..Len(blocks[k].transactions)
    /\ Overwrite(k, [blocks[k] EXCEPT !.transactions[i][field] = value])

\* the stored hash is rewritten to the recomputed one:
\* let b = blocks.get_mut(&k).unwrap(); b.hash = Some(b.calculate_hash())
Rehash(k) ==
    /\ k \in DOMAIN blocks
    /\ Overwrite(k, [blocks[k] EXCEPT !.hash = Some(calculate_hash(blocks[k]))])

\* every mutated field gets its original value back
Restore ==
    /\ ntamper > 0
    /\ blocks' = saved
    /\ ntamper' = 0
    /\ trip' = IF trip = "detected" THEN "round_trip" ELSE "restored"
    /\ op' = "restore"
    /\ args' = <<>>
    /\ ret' = Unit
    /\ panicked' = FALSE
    /\ UNCHANGED <<latest_block, blk, ncalls, saved>>
    /\ UNCHANGED conc

NextTamper ==
    \/ \E transactions \in TamperBatches, now \in TamperTimes :
          /\ BelowBound
          /\ ntamper = 0
          /\ CallAddBlock(transactions, now)
    \/ \E k \in 0..MaxBlocks, field \in BlockFields :
          \E value \in BlockFieldValues(field) : TamperBlockField(k, field, value)
    \/ \E k \in 0..MaxBlocks, i \in TamperIndexes, field \in TransactionFields :
          \E value \in TransactionFieldValues(field) :
             TamperTransactionField(k, i, field, value)
    \/ \E k \in 0..MaxBlocks : Rehash(k)
    \/ Restore
    \/ CallValidateChain

SpecTamper == Init /\ [][NextTamper]_vars

-----------------------------------------------------------------------------
(* Outside removal of stored blocks: blocks.remove(&k) *)

RemoveBlock(k) ==
    /\ k \in DOMAIN blocks
    /\ blocks' = [j \in DOMAIN blocks \ {k} |-> blocks[j]]
    /\ op' = "remove"
    /\ args' = <<k>>
    /\ ret' = Unit
    /\ panicked' = FALSE
    /\ UNCHANGED <<latest_block, blk, ncalls, saved, ntamper, trip>>
    /\ UNCHANGED conc

NextRemove ==
    \/ \E transactions \in ValidBatches, now \in Timestamps :
          BelowBound /\ CallAddBlock(transactions, now)
    \/ \E k \in 0..MaxBlocks : RemoveBlock(k)
    \/ CallValidateChain

SpecRemove == Init /\ [][NextRemove]_vars

-----------------------------------------------------------------------------
(* add_block and validate_chain interleaved statement by statement, as callers
   that are not serialized would run them.  Each writer makes one add_block
   call with a batch of 5 transactions; the validator makes one
   validate_chain call. *)

\* what the sequential calls leave behind is not touched by these steps
sequential == <<blk, op, args, ret, panicked, ncalls, saved, ntamper, trip>>

\* let latest_id = self.latest_block.unwrap();
\* let previous_hash = self.blocks[&latest_id].hash.clone().unwrap();
WriterRead(w, transactions) ==
    /\ writers[w].pc = "idle"
    /\ Len(transactions) = BlockCapacity
    /\ is_some(latest_block)
    /\ unwrap(latest_block) \in DOMAIN blocks
    /\ is_some(blocks[unwrap(latest_block)].hash)
    /\ writers' = [writers EXCEPT ![w] =
          [@ EXCEPT !.pc = "read",
                    !.transactions = transactions,
                    !.latest_id = unwrap(latest_block),
                    !.previous_hash = unwrap(blocks[unwrap(latest_block)].hash)]]
    /\ UNCHANGED <<blocks, latest_block, validator>>
    /\ UNCHANGED sequential

\* let mut block = Block::new(latest_id + 1, previous_hash);
WriterNew(w, now) ==
    /\ writers[w].pc = "read"
    /\ writers' = [writers EXCEPT ![w] =
          [@ EXCEPT !.pc = "fill",
                    !.block = Some(Block_new(writers[w].latest_id + 1, now,
                                             writers[w].previous_hash))]]
    /\ UNCHANGED <<blocks, latest_block, validator>>
    /\ UNCHANGED sequential

\* one turn of: for transaction in transactions { block.add_transaction(transaction); }
WriterAddTransaction(w) ==
    /\ writers[w].pc = "fill"
    /\ LET block == unwrap(writers[w].block)
           transaction == writers[w].transactions[Len(block.transactions) + 1]
           added == add_transaction(block, transaction)
       IN  writers' = [writers EXCEPT ![w] =
              [@ EXCEPT !.block = Some(added),
                        !.pc = IF Len(added.transactions) = Len(writers[w].transactions)
                               THEN "filled" ELSE "fill"]]
    /\ UNCHANGED <<blocks, latest_block, validator>>
    /\ UNCHANGED sequential

\* bug: the key is taken from the tip as it is when the block is inserted
InsertKey_FreshTip(w) == unwrap(latest_block) + 1

\* the key of self.blocks.insert(block.id, ...)
InsertKey(w) == unwrap(writers[w].block).id

\* bug: the block is inserted as soon as it exists, before the loop filled it
ReadyToInsert_BeforeFilled(w) == writers[w].pc \in {"fill", "filled"}

\* the insert statement follows the loop over the batch
ReadyToInsert(w) == writers[w].pc = "filled"

\* self.blocks.insert(block.id, block.clone());
WriterInsert(w) ==
    /\ ReadyToInsert(w)
    /\ blocks' = [k \in DOMAIN blocks \cup {InsertKey(w)} |->
                     IF k = InsertKey(w) THEN unwrap(writers[w].block) ELSE blocks[k]]
    /\ writers' = [writers EXCEPT ![w].pc = "inserted"]
    /\ UNCHANGED <<latest_block, validator>>
    /\ UNCHANGED sequential

\* self.latest_block = Some(block.id);
WriterAdvance(w) ==
    /\ writers[w].pc = "inserted"
    /\ latest_block' = Some(unwrap(writers[w].block).id)
    /\ writers' = [writers EXCEPT ![w].pc = "done"]
    /\ UNCHANGED <<blocks, validator>>
    /\ UNCHANGED sequential

\* an add_block call is between its first and its last statement
InProgress(w) == writers[w].pc \in {"read", "fill", "filled", "inserted"}

\* a block as no completed add_block or new() stores it: without a hash, or
\* other than the genesis block and with fewer than 5 transactions
PartiallyBuilt(k, block) ==
    \/ is_none(block.hash)
    \/ k # 0 /\ Len(block.transactions) < BlockCapacity

\* let mut previous_hash = String::from("0"); for id in 0..=self.latest_block.unwrap()
ValidatorStart ==
    /\ validator.pc = "idle"
    /\ is_some(latest_block)
    /\ validator' = [validator EXCEPT
          !.pc = "loop",
          !.last = unwrap(latest_block),
          !.id = 0,
          !.previous_hash = GenesisPreviousHash,
          !.overlapped = \E w \in Writers : InProgress(w)]
    /\ UNCHANGED <<blocks, latest_block, writers>>
    /\ UNCHANGED sequential

\* one turn of the loop of validate_chain, or its end
ValidatorStep ==
    /\ validator.pc = "loop"
    /\ validator' =
          IF validator.id > validator.last
          THEN [validator EXCEPT !.pc = "done", !.result = Some(TRUE)]
          ELSE IF validator.id \notin DOMAIN blocks
          THEN [validator EXCEPT !.pc = "panicked"]
          ELSE LET block == blocks[validator.id]
                   seen == [validator EXCEPT
                      !.overlapped = @ \/ \E w \in Writers : InProgress(w),
                      !.saw_partial = @ \/ PartiallyBuilt(validator.id, block)]
               IN  IF is_none(block.hash) \/ unwrap(block.hash) # calculate_hash(block)
                   THEN [seen EXCEPT !.pc = "done", !.result = Some(FALSE)]
                   ELSE IF block.previous_hash # validator.previous_hash
                   THEN [seen EXCEPT !.pc = "done", !.result = Some(FALSE)]
                   ELSE [seen EXCEPT !.id = @ + 1,
                                     !.previous_hash = unwrap(block.hash)]
    /\ UNCHANGED <<blocks, latest_block, writers>>
    /\ UNCHANGED sequential

NextRace ==
    \/ \E w \in Writers, transactions \in ValidBatches : WriterRead(w, transactions)
    \/ \E w \in Writers, now \in Timestamps : WriterNew(w, now)
    \/ \E w \in Writers : WriterAddTransaction(w)
    \/ \E w \in Writers : WriterInsert(w)
    \/ \E w \in Writers : WriterAdvance(w)
    \/ ValidatorStart
    \/ ValidatorStep

SpecRace == Init /\ [][NextRace]_vars

-----------------------------------------------------------------------------
(* Properties of the ledger, checked under Spec *)

Tip == unwrap(latest_block)

\* C1: from Blockchain::new(), after any number of add_block calls with exactly
\* 5 transactions each and no outside mutation, validate_chain() returns true:
\* it does in every reachable state, and every call made returned true.
C1_ValidAfterAppends ==
    /\ validate_chain(blocks, latest_block) = [panic |-> FALSE, value |-> TRUE]
    /\ op = "validate_chain" => (~panicked /\ ret = TRUE)

C1_Witness ==
    /\ op = "validate_chain"
    /\ ret = TRUE
    /\ Tip = MaxBlocks
    /\ Tip >= 2

\* C4: add_block with a batch whose length is not 5 panics and applies nothing:
\* blocks and latest_block are as before the call, and no stored block other
\* than the genesis block holds fewer or more than 5 transactions.
C4_RejectedBatchAppliesNothing ==
    [][(op' = "add_block" /\ Len(args'[1]) # BlockCapacity)
          => (/\ panicked'
              /\ blocks' = blocks
              /\ latest_block' = latest_block
              /\ \A k \in DOMAIN blocks' \ {0} :
                    Len(blocks'[k].transactions) = BlockCapacity)]_vars

C4_Witness ==
    /\ op = "add_block"
    /\ panicked
    /\ Len(args[1]) = BlockCapacity + 1
    /\ Tip >= 1

\* C5: with tip N, the keys of blocks are exactly 0..N, latest_block = N, each
\* block's id equals its key, block 0 has previous_hash "0", and block k's
\* previous_hash is block k-1's stored hash for every k in 1..N.
C5_ChainShape ==
    /\ is_some(latest_block)
    /\ DOMAIN blocks = 0..Tip
    /\ \A k \in DOMAIN blocks : blocks[k].id = k
    /\ blocks[0].previous_hash = "0"
    /\ \A k \in 1..Tip :
          /\ is_some(blocks[k - 1].hash)
          /\ blocks[k].previous_hash = unwrap(blocks[k - 1].hash)

C5_Witness ==
    /\ op = "add_block"
    /\ ~panicked
    /\ Tip = 2
    /\ DOMAIN blocks = {0, 1, 2}

\* C6: after any sequence of add_block calls, valid or rejected, latest_block is
\* present, the block it names is stored and has a hash; so add_block panics
\* only on a batch whose length is not 5.
C6_TipIsSealed ==
    /\ is_some(latest_block)
    /\ Tip \in DOMAIN blocks
    /\ is_some(blocks[Tip].hash)
    /\ \A transactions \in ValidBatches :
          ~AddBlockPanics(blocks, latest_block, transactions)
    /\ (op = "add_block" /\ panicked) => Len(args[1]) # BlockCapacity

C6_Witness ==
    /\ op = "add_block"
    /\ panicked
    /\ Tip >= 1
    /\ is_some(blocks[Tip].hash)

\* C7: add_block with exactly 5 transactions at tip t stores at key t+1 a block
\* with id t+1, previous_hash equal to block t's stored hash, the 5 submitted
\* transactions in the submitted order and a present hash; latest_block becomes
\* t+1 and get_block_by_id(t+1) returns that block.
C7_AppendPostcondition ==
    [][(op' = "add_block" /\ Len(args'[1]) = BlockCapacity)
          => LET t == unwrap(latest_block)
             IN  /\ ~panicked'
                 /\ latest_block' = Some(t + 1)
                 /\ is_some(get_block_by_id(blocks', t + 1))
                 /\ LET b == unwrap(get_block_by_id(blocks', t + 1))
                    IN  /\ b.id = t + 1
                        /\ b.previous_hash = unwrap(blocks[t].hash)
                        /\ b.transactions = args'[1]
                        /\ is_some(b.hash)]_vars

C7_Witness ==
    /\ op = "add_block"
    /\ ~panicked
    /\ Tip = 2
    /\ blocks[2].transactions = args[1]
    /\ blocks[2].previous_hash = unwrap(blocks[1].hash)

-----------------------------------------------------------------------------
(* Properties of a stand-alone block, checked under SpecBlock *)

\* C8: after exactly 5 add_transaction calls on a block made by Block::new, the
\* hash is present and equals calculate_hash() of the block's state at that
\* moment, which holds 5 transactions.
C8_SealedAtFive ==
    (is_some(blk) /\ ncalls = BlockCapacity)
        => /\ Len(unwrap(blk).transactions) = BlockCapacity
           /\ is_some(unwrap(blk).hash)
           /\ unwrap(unwrap(blk).hash) = calculate_hash(unwrap(blk))

C8_Witness ==
    /\ is_some(blk)
    /\ ncalls = BlockCapacity
    /\ op = "add_transaction"
    /\ unwrap(blk).transactions[1] # unwrap(blk).transactions[5]
    /\ is_some(unwrap(blk).hash)

\* C9: once a block holds 5 transactions, a further add_transaction call leaves
\* the whole block unchanged; and a hash that is set is the same after any
\* add_transaction call.
C9_FullBlockIsFrozen ==
    [][(op' = "add_transaction" /\ is_some(blk))
          => /\ Len(unwrap(blk).transactions) = BlockCapacity => blk' = blk
             /\ is_some(unwrap(blk).hash) => unwrap(blk').hash = unwrap(blk).hash]_vars

C9_Witness ==
    /\ is_some(blk)
    /\ op = "add_transaction"
    /\ ncalls = BlockCapacity + 2
    /\ Len(unwrap(blk).transactions) = BlockCapacity
    /\ args[1] # unwrap(blk).transactions[5]

\* C10: a block returned by Block::new has no transactions and no hash, and a
\* block changed only by add_transaction has no hash while it holds fewer than
\* 5 transactions.
C10_OpenBlockHasNoHash ==
    /\ op = "Block::new" =>
          (unwrap(blk).transactions = <<>> /\ is_none(unwrap(blk).hash))
    /\ (is_some(blk) /\ Len(unwrap(blk).transactions) < BlockCapacity) =>
          is_none(unwrap(blk).hash)

C10_Witness ==
    /\ is_some(blk)
    /\ op = "add_transaction"
    /\ Len(unwrap(blk).transactions) = BlockCapacity - 1
    /\ is_none(unwrap(blk).hash)

-----------------------------------------------------------------------------
(* Properties of outside mutation, checked under SpecTamper *)

\* the stored blocks that differ from what add_block stored
ChangedBlocks == {k \in DOMAIN blocks : blocks[k] # saved[k]}

\* how many fields of block a (its own and its transactions') differ from b's
FieldsChanged(a, b) ==
    Cardinality({f \in BlockFields : a[f] # b[f]})
      + Cardinality({p \in (1..Len(a.transactions)) \X TransactionFields :
                        a.transactions[p[1]][p[2]] # b.transactions[p[1]][p[2]]})

OneFieldChanged ==
    \E k \in DOMAIN blocks :
       ChangedBlocks = {k} /\ FieldsChanged(blocks[k], saved[k]) = 1

\* C2: with one field of one stored block (id, timestamp, a transaction's id,
\* origin, destination or quantity, previous_hash, or the stored hash) changed
\* to a different value, validate_chain() returns false; with the original
\* value restored it returns true again.
C2_OneFieldRoundTrip ==
    /\ OneFieldChanged =>
          validate_chain(blocks, latest_block) = [panic |-> FALSE, value |-> FALSE]
    /\ (op = "validate_chain" /\ OneFieldChanged) => (~panicked /\ ret = FALSE)
    /\ (op = "validate_chain" /\ trip \in {"restored", "round_trip"}) =>
          (~panicked /\ ret = TRUE)

C2_Witness ==
    /\ op = "validate_chain"
    /\ trip = "round_trip"
    /\ ret = TRUE
    /\ Tip >= 1

\* the contents of block a, the four inputs of its hash, differ from b's
ContentChanged(a, b) ==
    \/ a.id # b.id
    \/ a.timestamp # b.timestamp
    \/ a.transactions # b.transactions
    \/ a.previous_hash # b.previous_hash

\* block k alone is changed and its stored hash is the recomputed one
Rewritten(k) ==
    /\ ChangedBlocks = {k}
    /\ ContentChanged(blocks[k], saved[k])
    /\ blocks[k].hash = Some(calculate_hash(blocks[k]))

\* C3 as claimed: for every stored block k, genesis and tip included, changed
\* contents with the stored hash rewritten to the recomputed calculate_hash()
\* make validate_chain() return false.
C3_RewriteAlwaysDetected ==
    (op = "validate_chain" /\ \E k \in DOMAIN blocks : Rewritten(k)) => ret = FALSE

\* what validate_chain has to go by once block k carries its own recomputed
\* hash: block k's link to its predecessor, and the link of block k+1 to it
RewriteDetectable(k) ==
    \/ blocks[k].previous_hash # saved[k].previous_hash
    \/ k < Tip /\ calculate_hash(blocks[k]) # unwrap(saved[k].hash)

\* C3 amended: a rewritten block k makes validate_chain() return false exactly
\* when k's previous_hash was changed, or k is below the tip and the recomputed
\* hash differs from the original one; otherwise (the tip block with its
\* previous_hash kept, or contents that serialize to the same text) it
\* returns true.
C3_RewriteDetectedByLinks ==
    \A k \in DOMAIN blocks :
       (op = "validate_chain" /\ Rewritten(k))
          => (~panicked /\ ret = ~RewriteDetectable(k))

C3_Witness ==
    /\ op = "validate_chain"
    /\ ret = FALSE
    /\ Tip = 2
    /\ Rewritten(1)
    /\ blocks[1].previous_hash = saved[1].previous_hash
    /\ blocks[1].transactions[1].quantity = 100

-----------------------------------------------------------------------------
(* Further properties of the ledger, checked under Spec *)

\* C11: a freshly constructed Blockchain has tip 0 and exactly one stored
\* block; get_block_by_id(0) returns a block with id 0, previous_hash "0", no
\* transactions and a hash equal to its calculate_hash(); validate_chain()
\* returns true on it.
C11_FreshLedger ==
    /\ op = "new" =>
          /\ latest_block = Some(0)
          /\ DOMAIN blocks = {0}
          /\ is_some(get_block_by_id(blocks, 0))
          /\ LET genesis == unwrap(get_block_by_id(blocks, 0))
             IN  /\ genesis.id = 0
                 /\ genesis.previous_hash = "0"
                 /\ genesis.transactions = <<>>
                 /\ is_some(genesis.hash)
                 /\ unwrap(genesis.hash) = calculate_hash(genesis)
          /\ validate_chain(blocks, latest_block) = [panic |-> FALSE, value |-> TRUE]
    /\ (op = "validate_chain" /\ Tip = 0) => (~panicked /\ ret = TRUE)
    /\ (op = "get_block_by_id" /\ Tip = 0 /\ args = <<0>>) =>
          (is_some(ret) /\ unwrap(ret).transactions = <<>> /\ is_some(unwrap(ret).hash))

C11_Witness ==
    /\ op = "validate_chain"
    /\ ret = TRUE
    /\ Tip = 0
    /\ DOMAIN blocks = {0}
    /\ blocks[0].transactions = <<>>

\* C14: get_block_by_id(n) returns the stored block when n is in 0..tip and
\* None for every other n, and leaves blocks and latest_block unchanged.
C14_LookupIsReadOnly ==
    [][op' = "get_block_by_id"
          => LET n == args'[1]
             IN  /\ ~panicked'
                 /\ n \in 0..Tip => ret' = Some(blocks[n])
                 /\ n \notin 0..Tip => ret' = None
                 /\ blocks' = blocks
                 /\ latest_block' = latest_block]_vars

C14_Witness ==
    /\ op = "get_block_by_id"
    /\ Tip = 1
    /\ args = <<2>>
    /\ ret = None

\* C16: a successful add_block adds exactly one key to blocks and leaves every
\* block stored before unchanged in all its fields; no step removes, replaces
\* or changes a stored block, and latest_block never decreases.
C16_AppendOnly ==
    [][/\ DOMAIN blocks \subseteq DOMAIN blocks'
       /\ \A k \in DOMAIN blocks : blocks'[k] = blocks[k]
       /\ is_some(latest_block') /\ unwrap(latest_block') >= unwrap(latest_block)
       /\ (op' = "add_block" /\ ~panicked') =>
             /\ Cardinality(DOMAIN blocks' \ DOMAIN blocks) = 1
             /\ unwrap(latest_block') = unwrap(latest_block) + 1
       /\ (op' # "add_block" \/ panicked') => DOMAIN blocks' = DOMAIN blocks]_vars

C16_Witness ==
    /\ op = "add_block"
    /\ ~panicked
    /\ Tip = 2
    /\ Cardinality(DOMAIN blocks) = 3
    /\ blocks[1].timestamp # blocks[2].timestamp

-----------------------------------------------------------------------------
(* Property of outside removal, checked under SpecRemove *)

\* the keys of 0..tip that are no longer stored
MissingKeys == {k \in 0..Tip : k \notin DOMAIN blocks}

\* C12: when a stored block with sequence number in 0..tip has been removed
\* from blocks, validate_chain() returns false, and does so without panicking.
C12_RemovalReportedAsFalse ==
    (op = "validate_chain" /\ MissingKeys # {}) => (~panicked /\ ret = FALSE)

-----------------------------------------------------------------------------
(* Further properties of a stand-alone block, checked under SpecBlock *)

\* the values the stored hash field of a block can hold
StoredHashValues ==
    {None, Some(ForgedHash)}
      \cup (IF is_some(blk) THEN {Some(calculate_hash(unwrap(blk)))} ELSE {})

\* C13: calculate_hash(), called on a block in any state (0 to 5 transactions,
\* hash absent or present), changes no field of the block, returns the same
\* digest as the call before it on the unmodified block, and returns the same
\* digest for every block with the same id, timestamp, transactions and
\* previous_hash, whatever its stored hash field holds.
C13_HashIsPure ==
    [][op' = "calculate_hash"
          => /\ blk' = blk
             /\ ~panicked'
             /\ op = "calculate_hash" => ret' = ret
             /\ \A h \in StoredHashValues :
                   calculate_hash([unwrap(blk) EXCEPT !.hash = h]) = ret']_vars

C13_Witness ==
    /\ op = "calculate_hash"
    /\ is_some(blk)
    /\ Len(unwrap(blk).transactions) = BlockCapacity
    /\ unwrap(blk).hash = Some(ret)

\* C17: add_transaction on a block holding fewer than 5 transactions appends
\* the given transaction at the end: the length grows by exactly 1, the new
\* last element is the submitted transaction, and the earlier transactions
\* keep their values and order.
C17_AppendsAtEnd ==
    [][(op' = "add_transaction" /\ is_some(blk)
           /\ Len(unwrap(blk).transactions) < BlockCapacity)
          => LET old == unwrap(blk).transactions
                 new == unwrap(blk').transactions
             IN  /\ Len(new) = Len(old) + 1
                 /\ new[Len(new)] = args'[1]
                 /\ SubSeq(new, 1, Len(old)) = old]_vars

C17_Witness ==
    /\ op = "add_transaction"
    /\ is_some(blk)
    /\ Len(unwrap(blk).transactions) = 3
    /\ ncalls = 3
    /\ unwrap(blk).transactions[3] = args[1]
    /\ unwrap(blk).transactions[1] # args[1]

-----------------------------------------------------------------------------
(* Further properties of outside mutation, checked under SpecTamper *)

\* the three conditions on block k: its hash is present, equals the recomputed
\* one, and its previous_hash is the stored hash of block k-1 ("0" for k = 0)
BlockPasses(k) ==
    /\ is_some(blocks[k].hash)
    /\ unwrap(blocks[k].hash) = calculate_hash(blocks[k])
    /\ Some(blocks[k].previous_hash) =
          (IF k = 0 THEN Some("0") ELSE blocks[k - 1].hash)

\* C15: with every key 0..tip stored, tampered or not, validate_chain() returns
\* true if and only if every block k in 0..tip passes the three conditions, and
\* it leaves blocks and latest_block unchanged.
C15_ValidateCharacterised ==
    [][op' = "validate_chain"
          => /\ DOMAIN blocks = 0..Tip
             /\ ~panicked'
             /\ ret' = (\A k \in 0..Tip : BlockPasses(k))
             /\ blocks' = blocks
             /\ latest_block' = latest_block]_vars

C15_Witness ==
    /\ op = "validate_chain"
    /\ ret = FALSE
    /\ Tip = 2
    /\ BlockPasses(0)
    /\ BlockPasses(1)
    /\ ~BlockPasses(2)

\* C18: the text calculate_hash feeds to SHA-256 is injective on (id,
\* timestamp, transactions, previous_hash): a stored block whose id,
\* timestamp, transactions or previous_hash were changed, one or several of
\* them, never has the hash input of the original block.
C18_SerializationInjective ==
    \A k \in DOMAIN blocks :
       ContentChanged(blocks[k], saved[k]) =>
          HashInput(blocks[k]) # HashInput(saved[k])

-----------------------------------------------------------------------------
(* Properties of interleaved calls, checked under SpecRace *)

AllWritersDone == \A w \in Writers : writers[w].pc = "done"

\* the tips the add_block calls read
TipsRead == {writers[w].latest_id : w \in Writers}

\* C19: add_block calls interleaved between their statements race: once all
\* calls have returned, the ledger holds one appended block per tip that was
\* read, so two calls that read the same tip inserted at the same sequence
\* number and one of the two appended blocks is lost.
C19_RaceLosesBlock ==
    AllWritersDone =>
       /\ Cardinality(DOMAIN blocks) - 1 = Cardinality(TipsRead)
       /\ DOMAIN blocks = 0..Tip
       /\ \A w \in Writers : \A v \in Writers \ {w} :
             writers[w].latest_id = writers[v].latest_id =>
                /\ unwrap(writers[w].block).id = unwrap(writers[v].block).id
                /\ Cardinality(DOMAIN blocks) - 1 < Cardinality(Writers)

C19_Witness ==
    /\ AllWritersDone
    /\ writers["w1"].latest_id = writers["w2"].latest_id
    /\ writers["w1"].block # writers["w2"].block
    /\ DOMAIN blocks = {0, 1}
    /\ blocks[1] = unwrap(writers["w2"].block)

\* C20 as claimed, for the runs it is about: a validate_chain run that was
\* interleaved with an add_block call in progress has read from blocks a
\* partially-built block.
C20_OverlapObservesPartial ==
    (validator.pc = "done" /\ validator.overlapped) => validator.saw_partial

\* C20 amended: no interleaving lets validate_chain read a partially-built
\* block: the block under construction is a local of add_block until it is
\* inserted, filled and hashed, so every block stored under any key has its
\* hash, equal to the recomputed one, and 5 transactions (the genesis
\* block: none), and validate_chain finds every key of its range.
C20_NoPartialBlockInLedger ==
    /\ ~validator.saw_partial
    /\ validator.pc # "panicked"
    /\ \A k \in DOMAIN blocks :
          /\ ~PartiallyBuilt(k, blocks[k])
          /\ unwrap(blocks[k].hash) = calculate_hash(blocks[k])

C20_Witness ==
    /\ validator.pc = "loop"
    /\ validator.overlapped
    /\ validator.id = 2
    /\ \E w \in Writers :
          /\ writers[w].pc = "fill"
          /\ Len(unwrap(writers[w].block).transactions) \in 1..(BlockCapacity - 1)
          /\ unwrap(writers[w].block).id = 2

====
